---- MODULE Spec2Model ----
(***************************************************************************)
(* automata: reconciliation of GitLab group membership against local Linux *)
(* accounts, their authorized_keys files and the sudoers fragment.         *)
(*                                                                         *)
(* Text (usernames, keys, file contents) is a sequence of one-character    *)
(* strings, so that the sanitizers and the file formats are computed       *)
(* character by character as the Python code computes them.  File-system   *)
(* paths are sequences of path components.                                 *)
(***************************************************************************)
EXTENDS Integers, Sequences, FiniteSets, TLC

VARIABLES
    san,            \* pure-function harness: input and results of the sanitizers
    passwd,         \* /etc/passwd: set of [name, uid, gid, dir]
    etc_group,      \* /etc/group: set of [name, gid, mem]
    fs,             \* file system: path -> [content, uid, gid]
    last,           \* UserOps harness: the last call, its result, the primitives it ran
    written,        \* UserOps harness: user -> keys of its last successful populate_ssh_file
    delete_system_users,  \* UserOps.delete_system_users
    calls,          \* UserOps harness: number of calls made
    pc,             \* automata.py: position of the script
    ssh_list,       \* automata.py: ssh_list
    current_users,  \* automata.py: current_users
    removed_users,  \* automata.py: removed_users
    created_users,  \* automata.py: created_users
    todo,           \* automata.py: the part of the set a for loop has not visited yet
    idx,            \* automata.py: position of the loop over ssh_list
    oplog,          \* automata.py: commands run and files written so far, in order
    mapIdx,         \* reconciliation engine: the group mapping being reconciled
    processed,      \* reconciliation engine: the processed set
    remote,         \* reconciliation engine: the members of each remote group
    mappings        \* reconciliation engine: the configured group mappings, in order

vars == <<san, passwd, etc_group, fs, last, written, delete_system_users, calls,
          pc, ssh_list, current_users, removed_users, created_users, todo, idx, oplog,
          mapIdx, processed, remote, mappings>>

osVars == <<passwd, etc_group, fs>>
uoVars == <<last, written, delete_system_users, calls>>
runVars == <<pc, ssh_list, current_users, removed_users, created_users, todo, idx, oplog>>
engVars == <<mapIdx, processed, remote, mappings>>

-----------------------------------------------------------------------------
(* Bounds *)

\* longest username given to the sanitizers
MaxLen == 3
\* most members the GitLab group has
MaxMembers == 3
\* most group mappings handed to generate_sudoers_file
MaxGroups == 2
\* most calls of UserOps methods in one behaviour
MaxCalls == 3

-----------------------------------------------------------------------------
(* The parts of the state a specification does not use *)

NoLast == [op |-> "none", user |-> <<>>, result |-> "none", prims |-> <<>>,
           pre_uid |-> -1, arg |-> <<>>, ret |-> -1]

NoSan == [stage |-> "off", in |-> <<>>, out |-> <<>>, again |-> <<>>,
          sko_out |-> <<>>, sko_again |-> <<>>]

IdleOS == passwd = {} /\ etc_group = {} /\ fs = <<>>
IdleUO == last = NoLast /\ written = <<>> /\ delete_system_users = FALSE /\ calls = 0
IdleRun ==
    /\ pc = "off" /\ ssh_list = <<>> /\ current_users = {} /\ removed_users = {}
    /\ created_users = {} /\ todo = {} /\ idx = 0 /\ oplog = <<>>
IdleEngine == mapIdx = 0 /\ processed = {} /\ remote = <<>> /\ mappings = <<>>

-----------------------------------------------------------------------------
(* Characters *)

NL == "\n"

LowerChars == {"a", "b", "c", "d", "e", "f", "g", "h", "i", "j", "k", "l", "m",
               "n", "o", "p", "q", "r", "s", "t", "u", "v", "w", "x", "y", "z"}
UpperChars == {"A", "B", "C", "D", "E", "F", "G", "H", "I", "J", "K", "L", "M",
               "N", "O", "P", "Q", "R", "S", "T", "U", "V", "W", "X", "Y", "Z"}
DigitChars == {"0", "1", "2", "3", "4", "5", "6", "7", "8", "9"}
\* [A-Za-z0-9_]
AsciiWordChars == LowerChars \cup UpperChars \cup DigitChars \cup {"_"}
\* a representative of the letters and digits outside ASCII
UnicodeWordChars == {"é"}
\* representatives of the whitespace characters
SpaceChars == {" ", "\t", NL}

\* Python 3 re on str patterns: \w is every Unicode alphanumeric plus "_"
IsWordChar(c) == c \in AsciiWordChars \cup UnicodeWordChars
\* Python 3 re on str patterns: \s is Unicode whitespace
IsSpaceChar(c) == c \in SpaceChars

RECURSIVE Str(_)
\* the text as one string (used for path components)
Str(s) == IF s = <<>> THEN "" ELSE Head(s) \o Str(Tail(s))

RECURSIVE Concat(_)
\* "".join(parts)
Concat(parts) == IF parts = <<>> THEN <<>> ELSE Head(parts) \o Concat(Tail(parts))

RECURSIVE Join(_, _)
\* sep.join(parts)
Join(parts, sep) ==
    IF parts = <<>> THEN <<>>
    ELSE IF Len(parts) = 1 THEN Head(parts)
    ELSE Head(parts) \o sep \o Join(Tail(parts), sep)

RECURSIVE SplitLines(_)
\* str.splitlines() for "\n": the lines of a text, a final newline ending the last line
SplitLines(s) ==
    IF s = <<>> THEN <<>>
    ELSE LET nls == {i \in 1..Len(s) : s[i] = NL}
         IN  IF nls = {} THEN <<s>>
             ELSE LET k == CHOOSE i \in nls : \A j \in nls : i <= j
                  IN  <<SubSeq(s, 1, k - 1)>> \o SplitLines(SubSeq(s, k + 1, Len(s)))

-----------------------------------------------------------------------------
(* helpers/config_operations.py *)

\* re.sub(r'[^\w]', '_', username)
sanitize_username(username) ==
    [i \in 1..Len(username) |-> IF IsWordChar(username[i]) THEN username[i] ELSE "_"]

RECURSIVE sanitize_sudoers_line(_)
\* re.sub(r'\s+', ' ', sudoers_line): every maximal run of whitespace becomes one space
sanitize_sudoers_line(sudoers_line) ==
    IF sudoers_line = <<>> THEN <<>>
    ELSE IF IsSpaceChar(Head(sudoers_line))
         THEN LET rest == Tail(sudoers_line)
                  nonsp == {i \in 1..Len(rest) : ~IsSpaceChar(rest[i])}
                  k == IF nonsp = {} THEN Len(rest) + 1
                       ELSE CHOOSE i \in nonsp : \A j \in nonsp : i <= j
              IN  <<" ">> \o sanitize_sudoers_line(SubSeq(rest, k, Len(rest)))
         ELSE <<Head(sudoers_line)>> \o sanitize_sudoers_line(Tail(sudoers_line))

-----------------------------------------------------------------------------
(* ssh_key_object.py *)

\* username.replace(".", replacement_character)
sko_sanitize_username(username, replacement_character) ==
    Concat([i \in 1..Len(username) |->
        IF username[i] = "." THEN replacement_character ELSE <<username[i]>>])

\* SSHKeyObject.add_keys: a list is kept, a single str becomes a one-element list
add_keys(ssh_keys, is_list) == IF is_list THEN ssh_keys ELSE <<ssh_keys>>

\* SSHKeyObject.set_username
set_username(username) == sko_sanitize_username(username, <<"_">>)

\* the joined keys alone, for comparison
dump_authorized_keys_NoTrailing(ssh_keys) == Join(ssh_keys, <<NL>>)
\* SSHKeyObject.dump_authorized_keys: "\n".join(self.ssh_keys) + "\n"
dump_authorized_keys(ssh_keys) == Join(ssh_keys, <<NL>>) \o <<NL>>

-----------------------------------------------------------------------------
(* The operating system: pwd, grp, the shadow-utils commands and the files  *)

HasUser(name) == \E a \in passwd : a.name = name
\* pwd.getpwnam(name), defined when HasUser(name)
getpwnam(name) == CHOOSE a \in passwd : a.name = name
HasGroup(group) == \E g \in etc_group : g.name = group
\* grp.getgrnam(group), defined when HasGroup(group)
getgrnam(group) == CHOOSE g \in etc_group : g.name = group

IsPrefix(p, q) == Len(p) <= Len(q) /\ SubSeq(q, 1, Len(p)) = p

\* the uids useradd hands out, lowest free one first (UID_MIN of login.defs is 1000)
UidPool == 1000..1009
FreeUids == {u \in UidPool : \A a \in passwd : a.uid # u}
NextUid == CHOOSE u \in FreeUids : \A v \in FreeUids : u <= v

\* exit statuses useradd can end with: 9 the name is taken, 6 the group does not
\* exist, 4 no uid is free, else 0, or 1 (nothing changed) or 12 (the account is
\* made, its home directory is not)
useradd_statuses(user, group, groups) ==
    IF HasUser(user) THEN {9}
    ELSE IF \E g \in {group} \cup groups : ~HasGroup(g) THEN {6}
    ELSE IF FreeUids = {} THEN {4}
    ELSE {0, 1, 12}

\* /etc/passwd after useradd ended with the status
useradd_passwd(user, group, home, status) ==
    IF status \in {0, 12}
    THEN passwd \cup {[name |-> user, uid |-> NextUid, gid |-> getgrnam(group).gid,
                       dir |-> home]}
    ELSE passwd

\* /etc/group after useradd -G groups ended with the status
useradd_group(user, groups, status) ==
    IF status \in {0, 12}
    THEN {[g EXCEPT !.mem = IF g.name \in groups THEN g.mem \cup {user} ELSE g.mem] :
            g \in etc_group}
    ELSE etc_group

Entry(kind, content, uid, gid) ==
    [kind |-> kind, content |-> content, uid |-> uid, gid |-> gid]

\* the file system with one entry set
FsPut(files, path, entry) ==
    [p \in DOMAIN files \cup {path} |-> IF p = path THEN entry ELSE files[p]]

\* the file system without the entries at or below the directory
FsRemoveTree(files, dir) ==
    [p \in {q \in DOMAIN files : ~IsPrefix(dir, q)} |-> files[p]]

\* the file system after useradd -m ended with the status
useradd_fs(user, group, home, status) ==
    IF status = 0
    THEN FsPut(fs, home, Entry("dir", <<>>, NextUid, getgrnam(group).gid))
    ELSE fs

\* exit statuses userdel -f --remove can end with: 6 no such user, else 0 or
\* 1 (nothing changed)
userdel_statuses(user) == IF HasUser(user) THEN {0, 1} ELSE {6}

userdel_passwd(user, status) ==
    IF status = 0 THEN {a \in passwd : a.name # user} ELSE passwd

userdel_group(user, status) ==
    IF status = 0 THEN {[g EXCEPT !.mem = g.mem \ {user}] : g \in etc_group}
    ELSE etc_group

userdel_fs(user, status) ==
    IF status = 0 THEN FsRemoveTree(fs, getpwnam(user).dir) ELSE fs

\* the gids groupadd hands out
GidPool == 2000..2001
FreeGids == {n \in GidPool : \A g \in etc_group : g.gid # n}

\* exit statuses groupadd can end with: 9 the name is taken, 4 no gid is free,
\* else 0 or 10 (the group file could not be updated)
groupadd_statuses(group) ==
    IF HasGroup(group) THEN {9}
    ELSE IF FreeGids = {} THEN {4}
    ELSE {0, 10}

groupadd_group(group, status) ==
    IF status = 0
    THEN etc_group \cup {[name |-> group, mem |-> {},
                          gid |-> CHOOSE n \in FreeGids : \A m \in FreeGids : n <= m]}
    ELSE etc_group

\* os.makedirs(path): the directory is made unless something is there already
makedirs_fs(files, path) ==
    IF path \in DOMAIN files THEN files ELSE FsPut(files, path, Entry("dir", <<>>, 0, 0))

\* os.chown(path, uid, gid)
chown_fs(files, path, uid, gid) ==
    FsPut(files, path, [files[path] EXCEPT !.uid = uid, !.gid = gid])

\* open(path, "w") / write(content) / close: an existing file is truncated and
\* keeps its owner, a new one belongs to root
write_fs(files, path, content) ==
    IF path \in DOMAIN files
    THEN FsPut(files, path, [files[path] EXCEPT !.content = content])
    ELSE FsPut(files, path, Entry("file", content, 0, 0))

-----------------------------------------------------------------------------
(* helpers/user_operations.py: UserOps, its methods called in any order     *)

\* UserOps.base_dir, '/home' by default
base_dir == <<"home">>

Key1 == <<"k", "1">>
Key2 == <<"k", "2">>
KeyLists == {<<>>, <<Key1>>, <<Key2, Key1>>}

DevGroup == <<"d", "e", "v">>
OpsGroup == <<"o", "p", "s">>

Called(op, user, result, prims, pre_uid, arg, ret) ==
    [op |-> op, user |-> user, result |-> result, prims |-> prims,
     pre_uid |-> pre_uid, arg |-> arg, ret |-> ret]

\* the uid of the account, -1 when there is none
UidOf(name) == IF HasUser(name) THEN getpwnam(name).uid ELSE -1

\* the test with < in place of <=, for comparison
IsProtectedUser_Strict(uid) == uid < 1000 /\ ~delete_system_users
\* delete_user: a system user is refused unless delete_system_users is set
IsProtectedUser(uid) == uid <= 1000 /\ ~delete_system_users

\* UserOps.delete_user(user)
delete_user(user) ==
    /\ IF ~HasUser(user)
       THEN /\ last' = Called("delete_user", user, "UOUserNotFoundError", <<>>, -1, <<>>, -1)
            /\ UNCHANGED <<osVars, written>>
       ELSE IF IsProtectedUser(UidOf(user))
       THEN /\ last' = Called("delete_user", user, "UOProtectedUserError", <<>>,
                              UidOf(user), <<>>, -1)
            /\ UNCHANGED <<osVars, written>>
       ELSE \E status \in userdel_statuses(user) :
            /\ passwd' = userdel_passwd(user, status)
            /\ etc_group' = userdel_group(user, status)
            /\ fs' = userdel_fs(user, status)
            /\ written' = IF status = 0
                          THEN [u \in DOMAIN written \ {user} |-> written[u]]
                          ELSE written
            /\ last' = Called("delete_user", user,
                              IF status = 0 THEN "ok" ELSE "CalledProcessError",
                              <<[cmd |-> "userdel", user |-> user, status |-> status]>>,
                              UidOf(user), <<>>, -1)

\* what create_user does with the exit status of useradd: 9 is raised as
\* UOUserAlreadyExistsError, every other status goes on to get_user_uid
create_user_result(status, exists_after) ==
    IF status = 9 THEN "UOUserAlreadyExistsError"
    ELSE IF exists_after THEN "ok" ELSE "UOUserNotFoundError"

\* UserOps.create_user(user, group, groups): useradd -b base_dir/user -m -g group [-G groups]
create_user(user, group, groups) ==
    /\ UNCHANGED written
    /\ \E status \in useradd_statuses(user, group, groups) :
         LET home == base_dir \o <<Str(user), Str(user)>>
             after == useradd_passwd(user, group, home, status)
             exists_after == \E a \in after : a.name = user
         IN  /\ passwd' = after
             /\ etc_group' = useradd_group(user, groups, status)
             /\ fs' = useradd_fs(user, group, home, status)
             /\ last' = Called("create_user", user,
                               create_user_result(status, exists_after),
                               <<[cmd |-> "useradd", user |-> user, status |-> status]>>,
                               UidOf(user), <<>>,
                               IF status # 9 /\ exists_after
                               THEN (CHOOSE a \in after : a.name = user).uid ELSE -1)

\* what create_group does with the exit status of groupadd
create_group_result(status, exists_after) ==
    IF status = 9 THEN "UOGroupAlreadyExistsError"
    ELSE IF exists_after THEN "ok" ELSE "UOGroupNotFoundError"

\* UserOps.create_group(group)
create_group(group) ==
    /\ UNCHANGED <<written, passwd, fs>>
    /\ \E status \in groupadd_statuses(group) :
         LET after == groupadd_group(group, status)
             exists_after == \E g \in after : g.name = group
         IN  /\ etc_group' = after
             /\ last' = Called("create_group", group,
                               create_group_result(status, exists_after),
                               <<[cmd |-> "groupadd", user |-> group, status |-> status]>>,
                               -1, <<>>,
                               IF status # 9 /\ exists_after
                               THEN (CHOOSE g \in after : g.name = group).gid ELSE -1)

\* populate_ssh_file: os.path.join(self.base_dir, '.ssh')
authorized_keys_base_path(username) == base_dir \o <<".ssh">>
\* populate_ssh_file: os.path.join(authorized_keys_base_path, 'authorized_keys')
authorized_keys_path(username) == authorized_keys_base_path(username) \o <<"authorized_keys">>

\* UserOps.populate_ssh_file(ssh_keys, gid), ssh_keys an SSHKeyObject
populate_ssh_file(ssh_keys, gid) ==
    /\ UNCHANGED <<passwd, etc_group>>
    /\ LET username == sanitize_username(ssh_keys.username)
           contents == dump_authorized_keys(ssh_keys.ssh_keys)
           dir == authorized_keys_base_path(username)
           path == authorized_keys_path(username)
       IN  \E makedirs_ok \in BOOLEAN :
           IF ~makedirs_ok /\ dir \notin DOMAIN fs
           THEN /\ last' = Called("populate_ssh_file", username, "UOCannotCreateDirectory",
                                  <<>>, UidOf(username), ssh_keys.ssh_keys, -1)
                /\ UNCHANGED <<fs, written>>
           ELSE IF ~HasUser(username)
           THEN /\ fs' = makedirs_fs(fs, dir)
                /\ last' = Called("populate_ssh_file", username, "UOUserNotFoundError",
                                  <<>>, -1, ssh_keys.ssh_keys, -1)
                /\ UNCHANGED written
           ELSE LET uid == UidOf(username)
                    f1 == chown_fs(makedirs_fs(fs, dir), dir, uid, gid)
                    f2 == chown_fs(write_fs(f1, path, contents), path, uid, gid)
                IN  /\ fs' = f2
                    /\ written' = [u \in DOMAIN written \cup {username} |->
                                     IF u = username
                                     THEN [path |-> path, keys |-> ssh_keys.ssh_keys]
                                     ELSE written[u]]
                    /\ last' = Called("populate_ssh_file", username, "ok", <<>>, uid,
                                      ssh_keys.ssh_keys, -1)

UOUsers == {<<"a">>, <<"c", "_", "d">>}
UORawUsers == {<<"a">>, <<"c", ".", "d">>}

UOInitAccounts ==
    {[name |-> <<"c", "_", "d">>, uid |-> 500, gid |-> 2000, dir |-> <<"home", "c_d">>],
     [name |-> <<"a">>, uid |-> 1001, gid |-> 2000, dir |-> <<"home", "a">>]}

\* the home directories of the accounts
HomesOf(accounts) ==
    [p \in {a.dir : a \in accounts} |->
        LET a == CHOOSE x \in accounts : x.dir = p
        IN  Entry("dir", <<>>, a.uid, a.gid)]

UOInit ==
    /\ san = NoSan /\ IdleRun /\ IdleEngine
    /\ delete_system_users \in BOOLEAN
    /\ passwd \in SUBSET UOInitAccounts
    /\ etc_group = {[name |-> DevGroup, gid |-> 2000, mem |-> {}]}
    /\ fs = HomesOf(passwd)
    /\ last = NoLast /\ written = <<>> /\ calls = 0

\* one more call of a method on the same UserOps object
Call ==
    /\ calls < MaxCalls /\ calls' = calls + 1
    /\ UNCHANGED <<san, delete_system_users, runVars, engVars>>

CallDeleteUser == \E user \in UOUsers : Call /\ delete_user(user)

CallCreateUser ==
    \E user \in UOUsers, groups \in SUBSET {OpsGroup} :
        Call /\ create_user(user, DevGroup, groups)

CallCreateGroup == \E group \in {DevGroup, OpsGroup} : Call /\ create_group(group)

CallPopulateSshFile ==
    \E user \in UORawUsers, keys \in KeyLists :
        Call /\ populate_ssh_file([username |-> user, ssh_keys |-> keys], 2000)

UONext ==
    \/ CallDeleteUser
    \/ CallCreateUser
    \/ CallCreateGroup
    \/ CallPopulateSshFile

SpecUserOps == UOInit /\ [][UONext]_vars

\* C1: with the protection policy on, delete_user of an existing account with
\* uid <= 1000 raises UOProtectedUserError, runs no userdel, and the account stays
C1_ProtectedDeleteRefused ==
    (last.op = "delete_user" /\ ~delete_system_users /\ last.pre_uid \in 0..1000) =>
        /\ last.result = "UOProtectedUserError"
        /\ last.prims = <<>>
        /\ HasUser(last.user) /\ UidOf(last.user) = last.pre_uid

\* delete_user was refused for an account whose uid is exactly 1000
C1_Witness ==
    /\ last.op = "delete_user" /\ ~delete_system_users /\ last.pre_uid = 1000
    /\ last.result = "UOProtectedUserError" /\ HasUser(last.user)

\* C10: after populate_ssh_file for several principals, the authorized_keys file
\* of each still holds that principal's keys, in a file under its own home directory
C10_OwnKeyFile ==
    \A u \in DOMAIN written :
        HasUser(u) =>
            /\ written[u].path \in DOMAIN fs
            /\ fs[written[u].path].content = dump_authorized_keys(written[u].keys)
            /\ IsPrefix(getpwnam(u).dir, written[u].path)

\* C10, the frame part alone: a later populate_ssh_file for another principal
\* leaves the keys written for this one in place
C10_KeysStay ==
    \A u \in DOMAIN written :
        /\ written[u].path \in DOMAIN fs
        /\ fs[written[u].path].content = dump_authorized_keys(written[u].keys)

\* C11: create_user and create_group never return normally when useradd or
\* groupadd failed: exit status 9 is raised as the already-exists error and
\* every other nonzero status ends in an error too, never in a returned uid or gid
C11_CreationFailureRaised ==
    (last.op \in {"create_user", "create_group"} /\ last.prims[1].status # 0) =>
        /\ last.result # "ok"
        /\ last.ret = -1
        /\ last.prims[1].status = 9 =>
              last.result \in {"UOUserAlreadyExistsError", "UOGroupAlreadyExistsError"}

\* C11, the already-exists part alone: exit status 9 is raised as the
\* already-exists error of the method
C11_AlreadyExistsRaised ==
    (last.op \in {"create_user", "create_group"} /\ last.prims[1].status = 9) =>
        /\ last.ret = -1
        /\ last.result = IF last.op = "create_user" THEN "UOUserAlreadyExistsError"
                          ELSE "UOGroupAlreadyExistsError"

-----------------------------------------------------------------------------
(* helpers/user_operations.py: UserOps.generate_sudoers_file on every short *)
(* list of group configurations                                             *)

\* template.format(group=..., sudoers_line=...) with template '%{group} {sudoers_line}'
sudoers_entry(group) ==
    <<"%">> \o sanitize_username(group.linux_group) \o <<" ">>
            \o sanitize_sudoers_line(group.sudoers_line)

\* the f.write calls of the loop over gitlab_groups, in order
sudoers_contents(gitlab_groups) ==
    Concat([i \in 1..Len(gitlab_groups) |-> sudoers_entry(gitlab_groups[i])])

\* UserOps.generate_sudoers_file(sudoers_file, gitlab_groups)
generate_sudoers_file(sudoers_file, gitlab_groups) ==
    /\ UNCHANGED <<written, passwd, etc_group>>
    /\ fs' = write_fs(fs, sudoers_file, sudoers_contents(gitlab_groups))
    /\ last' = Called("generate_sudoers_file", <<>>, "ok", <<>>, -1, gitlab_groups, -1)

SudoersPath == <<"etc", "sudoers.d", "automata">>

\* GitlabGroupConfig, the fields generate_sudoers_file reads
GroupConfigs ==
    [linux_group : {DevGroup, <<"o", ".", "p">>, <<"q", "a">>},
     sudoers_line : {<<"A", "L", "L">>, <<"A", " ", "\t", "L">>, <<"N", NL, "L">>}]

\* lists of configurations of distinct local groups
GroupLists ==
    {l \in UNION {[1..k -> GroupConfigs] : k \in 0..MaxGroups} :
        \A i, j \in 1..Len(l) : i # j => l[i].linux_group # l[j].linux_group}

StaleSudoers == {<<"%", "x", " ", "A", NL>>, <<"j", "u", "n", "k">>}

SudoersInit ==
    /\ san = NoSan /\ IdleRun /\ IdleUO /\ IdleEngine
    /\ passwd = {} /\ etc_group = {}
    /\ \/ fs = <<>>
       \/ \E old \in StaleSudoers : fs = FsPut(<<>>, SudoersPath, Entry("file", old, 0, 0))

CallGenerateSudoersFile ==
    \E groups \in GroupLists : Call /\ generate_sudoers_file(SudoersPath, groups)

SudoersNext == CallGenerateSudoersFile

SpecSudoers == SudoersInit /\ [][SudoersNext]_vars

\* C7: after generate_sudoers_file the file is exactly one line per mapping, in
\* mapping order, the i-th being "%" + sanitized group + " " + normalized sudoers line
C7_OneLinePerMapping ==
    last.op = "generate_sudoers_file" =>
        /\ SudoersPath \in DOMAIN fs
        /\ SplitLines(fs[SudoersPath].content) =
             [i \in 1..Len(last.arg) |->
                <<"%">> \o sanitize_username(last.arg[i].linux_group) \o <<" ">>
                        \o sanitize_sudoers_line(last.arg[i].sudoers_line)]

\* C7, the consequence alone: the content is a function of the mapping list, so
\* two calls with the same list leave the same bytes
C7_Deterministic ==
    last.op = "generate_sudoers_file" =>
        fs[SudoersPath].content = sudoers_contents(last.arg)

-----------------------------------------------------------------------------
(* automata.py: one run of the script                                       *)

\* config["group"]
group_tracking == <<"g", "i", "t">>
\* config["sudoers_file"]
sudoers_file == "automata"

LogEntry(op, user, status, uid) ==
    [op |-> op, user |-> user, status |-> status, uid |-> uid, at |-> mapIdx]

\* the sections with the first two exchanged, for comparison
PhaseOrder_CreateFirst == <<"create", "delete", "keys", "sudoers", "done">>
\* the sections of the script after current_users is known, in source order
PhaseOrder == <<"delete", "create", "keys", "sudoers", "done">>
PhaseAfter(p) == PhaseOrder[(CHOOSE i \in 1..Len(PhaseOrder) : PhaseOrder[i] = p) + 1]

\* set([i.username for i in ssh_list])
desired_users == {ssh_list[i].username : i \in 1..Len(ssh_list)}

\* removed_users = current_users - set([i.username for i in ssh_list])
removed_users_of(current, desired) == current \ desired

\* the desired set without the subtraction, for comparison
created_users_of_All(current, desired) == desired
\* created_users = set([i.username for i in ssh_list]) - current_users
created_users_of(current, desired) == desired \ current

\* what the script sets up on reaching a section
Enter(p) ==
    /\ pc' = p
    /\ IF p = "delete"
       THEN todo' = removed_users /\ UNCHANGED <<created_users, idx>>
       ELSE IF p = "create"
       THEN /\ created_users' = created_users_of(current_users, desired_users)
            /\ todo' = created_users'
            /\ UNCHANGED idx
       ELSE IF p = "keys"
       THEN idx' = 1 /\ todo' = {} /\ UNCHANGED created_users
       ELSE todo' = {} /\ UNCHANGED <<created_users, idx>>

RawMembers == {<<"a">>, <<"b", ".", "c">>, <<"b", "_", "c">>}

\* the answers of the GitLab API: the members of the group, no username twice,
\* each with its keys
MemberLists ==
    {l \in UNION {[1..k -> [username : RawMembers, keys : KeyLists]] : k \in 0..MaxMembers} :
        \A i, j \in 1..Len(l) : i # j => l[i].username # l[j].username}

\* lines 53-91: the members are fetched, then the keys of each; ssh_list is built
QueryMembers ==
    /\ pc = "members"
    /\ \E members \in MemberLists :
         ssh_list' = [i \in 1..Len(members) |->
                        [username |-> set_username(members[i].username),
                         ssh_keys |-> add_keys(members[i].keys, TRUE)]]
    /\ pc' = "group"
    /\ UNCHANGED <<engVars, san, osVars, uoVars, current_users, removed_users, created_users,
                   todo, idx, oplog>>

\* lines 57-75: the API answers with an error or cannot be reached: sys.exit
QueryMembersFails ==
    /\ pc = "members"
    /\ pc' = "exit"
    /\ UNCHANGED <<engVars, san, osVars, uoVars, ssh_list, current_users, removed_users,
                   created_users, todo, idx, oplog>>

\* lines 93-104: the group is looked up and made when it is not there
EnsureGroup ==
    /\ pc = "group"
    /\ UNCHANGED <<engVars, san, uoVars, passwd, fs, ssh_list, current_users, removed_users,
                   created_users, todo, idx>>
    /\ IF HasGroup(group_tracking)
       THEN pc' = "current" /\ UNCHANGED <<etc_group, oplog>>
       ELSE \E status \in groupadd_statuses(group_tracking) :
              /\ etc_group' = groupadd_group(group_tracking, status)
              /\ oplog' = Append(oplog, LogEntry("groupadd", group_tracking, status, -1))
              /\ pc' = IF status = 0 THEN "current" ELSE "crashed"

\* lines 106-117: current_users and removed_users
ComputeCurrent ==
    /\ pc = "current"
    /\ LET group == getgrnam(group_tracking)
           pw == {set_username(a.name) : a \in {x \in passwd : x.gid = group.gid}}
           gr == {set_username(m) : m \in group.mem}
       IN  /\ current_users' = gr \cup pw
           /\ removed_users' = removed_users_of(current_users', desired_users)
    /\ pc' = "diffed"
    /\ UNCHANGED <<engVars, san, osVars, uoVars, ssh_list, created_users, todo, idx, oplog>>

\* line 119: the script reaches its first loop
BeginLoops ==
    /\ pc = "diffed"
    /\ Enter(PhaseOrder[1])
    /\ UNCHANGED <<engVars, san, osVars, uoVars, ssh_list, current_users, removed_users, oplog>>

\* lines 119-122: userdel -f --remove for the next user of removed_users
DeleteUser ==
    /\ pc = "delete" /\ todo # {}
    /\ UNCHANGED <<engVars, san, uoVars, ssh_list, current_users, removed_users, created_users, idx>>
    /\ \E user \in todo : \E status \in userdel_statuses(user) :
         /\ passwd' = userdel_passwd(user, status)
         /\ etc_group' = userdel_group(user, status)
         /\ fs' = userdel_fs(user, status)
         /\ oplog' = Append(oplog, LogEntry("userdel", user, status, UidOf(user)))
         /\ todo' = todo \ {user}
         /\ pc' = IF status = 0 THEN "delete" ELSE "crashed"

\* the loop over removed_users ends
DeletesDone ==
    /\ pc = "delete" /\ todo = {}
    /\ Enter(PhaseAfter("delete"))
    /\ UNCHANGED <<engVars, san, osVars, uoVars, ssh_list, current_users, removed_users, oplog>>

\* lines 131-134: useradd -s SHELL -m -g group_tracking for the next user of created_users
CreateUser ==
    /\ pc = "create" /\ todo # {}
    /\ UNCHANGED <<engVars, san, uoVars, ssh_list, current_users, removed_users, created_users, idx>>
    /\ \E user \in todo : \E status \in useradd_statuses(user, group_tracking, {}) :
         LET home == <<"home", Str(user)>>
         IN  /\ passwd' = useradd_passwd(user, group_tracking, home, status)
             /\ etc_group' = useradd_group(user, {}, status)
             /\ fs' = useradd_fs(user, group_tracking, home, status)
             /\ oplog' = Append(oplog, LogEntry("useradd", user, status, -1))
             /\ todo' = todo \ {user}
             /\ pc' = IF status = 0 THEN "create" ELSE "crashed"

\* the loop over created_users ends
CreatesDone ==
    /\ pc = "create" /\ todo = {}
    /\ Enter(PhaseAfter("create"))
    /\ UNCHANGED <<engVars, san, osVars, uoVars, ssh_list, current_users, removed_users, oplog>>

\* a loop over the members just created only, for comparison
keys_loop_items_Created ==
    SelectSeq(ssh_list, LAMBDA o : o.username \in created_users)
\* line 137: for ssh_obj in ssh_list
keys_loop_items == ssh_list

\* line 139: the keys of the first object of ssh_list with the user's name
user_info_of(user) ==
    LET matching == {i \in 1..Len(ssh_list) : set_username(ssh_list[i].username) = user}
        first == CHOOSE i \in matching : \A j \in matching : i <= j
    IN  dump_authorized_keys(ssh_list[first].ssh_keys)

\* lines 140-141
key_path_of(user) == <<"home", Str(user), ".ssh", "authorized_keys">>

\* lines 137-154: the authorized_keys file of the next object of ssh_list
WriteKeys ==
    /\ pc = "keys" /\ idx <= Len(keys_loop_items)
    /\ UNCHANGED <<engVars, san, uoVars, passwd, etc_group, ssh_list, current_users, removed_users,
                   created_users, todo>>
    /\ LET user == keys_loop_items[idx].username
           user_info == user_info_of(user)
           home_dir == <<"home", Str(user), ".ssh">>
           key_path == key_path_of(user)
           gid == getgrnam(group_tracking).gid
       IN  IF ~HasUser(user)
           THEN /\ fs' = makedirs_fs(fs, home_dir)
                /\ pc' = "crashed"
                /\ UNCHANGED <<idx, oplog>>
           ELSE LET uid == UidOf(user)
                    f1 == chown_fs(makedirs_fs(fs, home_dir), home_dir, uid, gid)
                    f2 == chown_fs(write_fs(f1, key_path, user_info), key_path, uid, gid)
                IN  /\ fs' = f2
                    /\ oplog' = Append(oplog, LogEntry("keys", user, 0, uid))
                    /\ idx' = idx + 1
                    /\ pc' = "keys"

\* the loop over ssh_list ends
KeysDone ==
    /\ pc = "keys" /\ idx > Len(keys_loop_items)
    /\ Enter(PhaseAfter("keys"))
    /\ UNCHANGED <<engVars, san, osVars, uoVars, ssh_list, current_users, removed_users, oplog>>

SudoersTemplate ==
    <<" ", "A", "L", "L", "=", "(", "A", "L", "L", ")", " ",
      "N", "O", "P", "A", "S", "S", "W", "D", ":", " ", "A", "L", "L", NL>>

\* lines 156-160: /etc/sudoers.d/<sudoers_file> is written, one line per member
WriteSudoers ==
    /\ pc = "sudoers"
    /\ fs' = write_fs(fs, <<"etc", "sudoers.d", sudoers_file>>,
                      Concat([i \in 1..Len(ssh_list) |->
                                ssh_list[i].username \o SudoersTemplate]))
    /\ oplog' = Append(oplog, LogEntry("sudoers", <<>>, 0, -1))
    /\ Enter(PhaseAfter("sudoers"))
    /\ UNCHANGED <<engVars, san, uoVars, passwd, etc_group, ssh_list, current_users, removed_users>>

RunInitAccounts ==
    {[name |-> <<"a">>, uid |-> 1001, gid |-> 2000, dir |-> <<"home", "a">>],
     [name |-> <<"b", "_", "c">>, uid |-> 1002, gid |-> 2000, dir |-> <<"home", "b_c">>],
     [name |-> <<"b", "_", "c">>, uid |-> 1002, gid |-> 100, dir |-> <<"home", "b_c">>],
     [name |-> <<"b", ".", "c">>, uid |-> 1003, gid |-> 2000, dir |-> <<"home", "b.c">>],
     [name |-> <<"d">>, uid |-> 500, gid |-> 2000, dir |-> <<"home", "d">>]}

\* the machine before the run: accounts with distinct names, the group there or
\* not (then no account is in it), at most one supplementary member
Init ==
    /\ san = NoSan /\ IdleUO /\ IdleEngine
    /\ passwd \in {S \in SUBSET RunInitAccounts :
                     \A x, y \in S : x.name = y.name => x = y}
    /\ \/ \E mem \in {{}, {<<"b", "_", "c">>}} :
            etc_group = {[name |-> group_tracking, gid |-> 2000, mem |-> mem]}
       \/ etc_group = {} /\ \A x \in passwd : x.gid # 2000
    /\ fs = HomesOf(passwd)
    /\ pc = "members" /\ ssh_list = <<>> /\ current_users = {} /\ removed_users = {}
    /\ created_users = {} /\ todo = {} /\ idx = 0 /\ oplog = <<>>

Next ==
    \/ QueryMembers
    \/ QueryMembersFails
    \/ EnsureGroup
    \/ ComputeCurrent
    \/ BeginLoops
    \/ DeleteUser
    \/ DeletesDone
    \/ CreateUser
    \/ CreatesDone
    \/ WriteKeys
    \/ KeysDone
    \/ WriteSudoers

Spec == Init /\ [][Next]_vars

\* the log entries of one kind
Logged(op) == {k \in 1..Len(oplog) : oplog[k].op = op}

\* C2: toCreate = D - O and toDelete = O - D; they are disjoint, neither holds a
\* name of O \cap D, and toCreate \cup (O \cap D) \cup toDelete = D \cup O
C2_DiffSets ==
    LET D == desired_users
        O == current_users
    IN  /\ pc \in {"diffed", "delete", "create", "keys", "sudoers", "done"} =>
              removed_users = O \ D
        /\ pc \in {"create", "keys", "sudoers", "done"} =>
              /\ created_users = D \ O
              /\ created_users \cap removed_users = {}
              /\ created_users \cap (O \cap D) = {}
              /\ removed_users \cap (O \cap D) = {}
              /\ created_users \cup (O \cap D) \cup removed_users = D \cup O

\* both sets are computed, neither is empty and some user is in both D and O
C2_Witness ==
    /\ pc = "keys"
    /\ created_users # {} /\ removed_users # {}
    /\ current_users \cap desired_users # {}

\* C3: no userdel after a useradd, no userdel or useradd after a key file is
\* written; every user of removed_users is deleted before the first useradd and
\* every user of created_users is created before the first key file
C3_DeleteCreateKeysOrder ==
    /\ \A i, j \in 1..Len(oplog) :
          i < j =>
            /\ oplog[i].op = "useradd" => oplog[j].op # "userdel"
            /\ oplog[i].op = "keys" => oplog[j].op \notin {"userdel", "useradd"}
    /\ Logged("useradd") # {} =>
          \A u \in removed_users :
            \E k \in Logged("userdel") : oplog[k].user = u /\ oplog[k].status = 0
    /\ Logged("keys") # {} =>
          /\ \A u \in removed_users :
               \E k \in Logged("userdel") : oplog[k].user = u /\ oplog[k].status = 0
          /\ \A u \in created_users :
               \E k \in Logged("useradd") : oplog[k].user = u /\ oplog[k].status = 0

\* a run that deleted, created and wrote a key file
C3_Witness ==
    Logged("userdel") # {} /\ Logged("useradd") # {} /\ Logged("keys") # {}

\* C4: a userdel of an account with uid <= 1000 is refused and is the last thing
\* the run does: the account stays, nothing is created, no key file and no
\* sudoers file is written afterwards
C4_ProtectedDeleteStopsRun ==
    \A k \in Logged("userdel") :
        oplog[k].uid \in 0..1000 =>
            /\ oplog[k].status # 0
            /\ HasUser(oplog[k].user)
            /\ k = Len(oplog)
            /\ pc \notin {"create", "keys", "sudoers", "done"}

\* the members of ssh_list with the name of member i
SameName(i) == {j \in 1..Len(ssh_list) : ssh_list[j].username = ssh_list[i].username}

\* C6: in a run that reaches its end, the key file of every member of ssh_list
\* was written in this run, also of a member that was neither created nor
\* deleted, and holds the member's keys
C6_KeysForEveryMember ==
    pc = "done" =>
        \A i \in 1..Len(ssh_list) :
            LET user == ssh_list[i].username
            IN  /\ \E k \in Logged("keys") : oplog[k].user = user
                /\ key_path_of(user) \in DOMAIN fs
                /\ SameName(i) = {i} =>
                     fs[key_path_of(user)].content =
                        dump_authorized_keys(ssh_list[i].ssh_keys)

\* the scenario of the claim: one user created, one deleted, one left alone
C6_Witness ==
    /\ pc = "done"
    /\ created_users # {} /\ removed_users # {}
    /\ \E i \in 1..Len(ssh_list) :
          /\ ssh_list[i].username \in current_users
          /\ ssh_list[i].ssh_keys # <<>>
          /\ \E k \in Logged("keys") : oplog[k].user = ssh_list[i].username

RECURSIVE EachKeyOnItsLine(_)
\* every key followed by a newline
EachKeyOnItsLine(keys) ==
    IF keys = <<>> THEN <<>> ELSE Head(keys) \o <<NL>> \o EachKeyOnItsLine(Tail(keys))

\* the content the specification gives an authorized_keys file
KeysText(keys) == IF keys = <<>> THEN <<NL>> ELSE EachKeyOnItsLine(keys)

UseraddsOf(user) == {k \in Logged("useradd") : oplog[k].user = user}

\* C13: when two members of the group have the same canonical name, a run that
\* reaches its end has created that account at most once and its authorized_keys
\* file holds the keys of the last of them in ssh_list
C13_MergedLastWins ==
    pc = "done" =>
        \A i \in 1..Len(ssh_list) :
            SameName(i) # {i} =>
                LET user == ssh_list[i].username
                    latest == CHOOSE j \in SameName(i) : \A k \in SameName(i) : k <= j
                IN  /\ Cardinality(UseraddsOf(user)) <= 1
                    /\ fs[key_path_of(user)].content =
                          dump_authorized_keys(ssh_list[latest].ssh_keys)

\* C13, what the run leaves instead: the account is created at most once and
\* the file holds the keys of the first of the members of that name
C13_MergedFirstWins ==
    pc = "done" =>
        \A i \in 1..Len(ssh_list) :
            SameName(i) # {i} =>
                LET user == ssh_list[i].username
                    first == CHOOSE j \in SameName(i) : \A k \in SameName(i) : j <= k
                IN  /\ Cardinality(UseraddsOf(user)) <= 1
                    /\ fs[key_path_of(user)].content =
                          dump_authorized_keys(ssh_list[first].ssh_keys)

\* lines 106-110 on the machine as it is now: the canonical names of the accounts
\* whose primary group is the tracked group, united with its supplementary members
observed_users ==
    LET group == getgrnam(group_tracking)
        pw == {set_username(a.name) : a \in {x \in passwd : x.gid = group.gid}}
        gr == {set_username(m) : m \in group.mem}
    IN  gr \cup pw

\* C12: after a run that completed, the canonical names observed in the local
\* group equal the desired set, so a run that follows with the same membership
\* has nothing to delete and nothing to create
C12_Converged ==
    pc = "done" =>
        /\ observed_users = desired_users
        /\ removed_users_of(observed_users, desired_users) = {}
        /\ created_users_of(observed_users, desired_users) = {}

\* C12, on machines where every account carries its canonical name: the run
\* that completed leaves the observed set equal to the desired set
C12_ConvergedCanonicalAccounts ==
    (pc = "done" /\ \A a \in passwd : set_username(a.name) = a.name) =>
        observed_users = desired_users

-----------------------------------------------------------------------------
(* The sanitizers applied to every short username, once and then to their   *)
(* own result.                                                              *)

\* every text over the characters S of length at most n
Texts(S, n) == UNION {[1..k -> S] : k \in 0..n}

SanChars == {"a", "Z", "7", "_", ".", "-", " ", "é"}

SanInit ==
    /\ \E u \in Texts(SanChars, MaxLen) : san = [NoSan EXCEPT !.stage = "input", !.in = u]
    /\ IdleOS /\ IdleUO /\ IdleRun /\ IdleEngine

SanitizeOnce ==
    /\ san.stage = "input"
    /\ san' = [san EXCEPT !.stage = "once",
                           !.out = sanitize_username(san.in),
                           !.sko_out = set_username(san.in)]
    /\ UNCHANGED <<osVars, uoVars, runVars, engVars>>

SanitizeAgain ==
    /\ san.stage = "once"
    /\ san' = [san EXCEPT !.stage = "twice",
                           !.again = sanitize_username(san.out),
                           !.sko_again = set_username(san.sko_out)]
    /\ UNCHANGED <<osVars, uoVars, runVars, engVars>>

SanNext == SanitizeOnce \/ SanitizeAgain

SpecSanitize == SanInit /\ [][SanNext]_vars

\* what the specification asks of a canonical username: every character outside
\* [A-Za-z0-9_] replaced by "_", every other character kept
IsCanonicalOf(out, in) ==
    /\ Len(out) = Len(in)
    /\ \A i \in 1..Len(in) :
          out[i] = IF in[i] \in AsciiWordChars THEN in[i] ELSE "_"

\* C9: each sanitize_username replaces exactly the characters outside [A-Za-z0-9_]
\* by "_" (same length, result within [A-Za-z0-9_]) and is idempotent
C9_Canonicalization ==
    san.stage = "twice" =>
        /\ IsCanonicalOf(san.out, san.in) /\ san.again = san.out
        /\ IsCanonicalOf(san.sko_out, san.in) /\ san.sko_again = san.sko_out

\* C9 for helpers/config_operations.py alone
C9_ConfigOpsCanonical ==
    san.stage = "twice" => IsCanonicalOf(san.out, san.in) /\ san.again = san.out

\* C9 for ssh_key_object.py alone
C9_SkoCanonical ==
    san.stage = "twice" => IsCanonicalOf(san.sko_out, san.in) /\ san.sko_again = san.sko_out

\* the part of C9 that does hold of both: same length and idempotence
C9_LengthAndIdempotence ==
    san.stage = "twice" =>
        /\ Len(san.out) = Len(san.in) /\ san.again = san.out
        /\ Len(san.sko_out) = Len(san.in) /\ san.sko_again = san.sko_out

-----------------------------------------------------------------------------
(* The reconciliation engine over all configured group mappings.  Its       *)
(* driver is not among the sources; the steps are those of reconcileGroup   *)
(* as specified, each store and credential operation being the UserOps      *)
(* method above.                                                            *)

\* UserOps.get_all_users_in_group(gid)
get_all_users_in_group(gid) ==
    LET group_info == CHOOSE g \in etc_group : g.gid = gid
        passwd_users == {sanitize_username(a.name) : a \in {x \in passwd : x.gid = gid}}
        group_users == {sanitize_username(m) : m \in group_info.mem}
    IN  group_users \cup passwd_users

\* UserOps.get_group_gid(group), defined when HasGroup(group)
get_group_gid(group) == getgrnam(group).gid

EngGroups == {DevGroup, OpsGroup}

\* the configurations: at most MaxGroups mappings, of distinct local groups, each
\* with supplementary groups among the other local groups
EngMappingLists ==
    {l \in UNION {[1..k -> [linux_group : EngGroups, other_groups : SUBSET EngGroups,
                            sudoers_line : {<<"A", "L", "L">>}]] : k \in 1..MaxGroups} :
        /\ \A i, j \in 1..Len(l) : i # j => l[i].linux_group # l[j].linux_group
        /\ \A i \in 1..Len(l) : l[i].linux_group \notin l[i].other_groups}

\* the principals the identity source knows, and the member lists of a remote group
EngPrincipalA == [username |-> <<"a">>, ssh_keys |-> <<Key1>>]
EngPrincipalB == [username |-> <<"b", ".", "c">>, ssh_keys |-> <<Key2, Key1>>]
EngMemberLists == {<<>>, <<EngPrincipalA>>, <<EngPrincipalB>>, <<EngPrincipalA, EngPrincipalB>>}

\* step 4: desired = {canonicalUsername(p) for p in members}
desired_of(members) == {sanitize_username(members[i].username) : i \in DOMAIN members}

\* the mapping being reconciled
mapping == mappings[mapIdx]

\* creation without the processed set, for comparison
ShouldCreate_Always(user) == TRUE
\* step 7: a user of toCreate is created unless it is in processed
ShouldCreate(user) == user \notin processed

\* the UserOps call just made, appended to the log
LogCall == oplog' = Append(oplog, LogEntry(last'.op, last'.user, last'.result, last'.pre_uid))

\* the engine moves on; its configuration and the harness parts stay
EngStep(next) ==
    /\ pc' = next
    /\ UNCHANGED <<san, delete_system_users, calls, remote, mappings>>

\* step 1: the members of the remote group and their keys
EngFetch ==
    /\ pc = "fetch"
    /\ ssh_list' = remote[mapIdx]
    /\ EngStep("group")
    /\ UNCHANGED <<osVars, last, written, current_users, removed_users, created_users,
                   todo, idx, oplog, mapIdx, processed>>

\* step 1: IdentitySourceError is fatal for the run
EngFetchFails ==
    /\ pc = "fetch"
    /\ EngStep("fatal")
    /\ UNCHANGED <<osVars, last, written, ssh_list, current_users, removed_users,
                   created_users, todo, idx, oplog, mapIdx, processed>>

\* step 2: the local group is created when it does not exist
EngGroup ==
    /\ pc = "group"
    /\ IF HasGroup(mapping.linux_group)
       THEN /\ EngStep("diff")
            /\ UNCHANGED <<osVars, last, written, oplog>>
       ELSE /\ create_group(mapping.linux_group)
            /\ LogCall
            /\ EngStep(IF last'.result = "ok" THEN "diff" ELSE "fatal")
    /\ UNCHANGED <<ssh_list, current_users, removed_users, created_users, todo, idx,
                   mapIdx, processed>>

\* steps 3 to 5: observed, desired, toDelete and toCreate
EngDiff ==
    /\ pc = "diff"
    /\ LET observed == get_all_users_in_group(get_group_gid(mapping.linux_group))
           desired == desired_of(ssh_list)
       IN  /\ current_users' = observed
           /\ removed_users' = observed \ desired
           /\ created_users' = desired \ observed
           /\ todo' = observed \ desired
    /\ EngStep("delete")
    /\ UNCHANGED <<osVars, last, written, ssh_list, idx, oplog, mapIdx, processed>>

\* step 6: deleteAccount for a user of toDelete; a refusal or failure is fatal
EngDelete ==
    /\ pc = "delete"
    /\ \E user \in todo :
         /\ delete_user(user)
         /\ todo' = todo \ {user}
    /\ LogCall
    /\ EngStep(IF last'.result = "ok" THEN "delete" ELSE "fatal")
    /\ UNCHANGED <<ssh_list, current_users, removed_users, created_users, idx,
                   mapIdx, processed>>

\* step 6 is complete: the creations start
EngDeletesDone ==
    /\ pc = "delete" /\ todo = {}
    /\ todo' = created_users
    /\ EngStep("create")
    /\ UNCHANGED <<osVars, last, written, ssh_list, current_users, removed_users,
                   created_users, idx, oplog, mapIdx, processed>>

\* step 7: createAccount for a user of toCreate; one already in processed is
\* skipped with no operation, an account that already exists goes to the repair
EngCreate ==
    /\ pc = "create"
    /\ \E user \in todo :
         /\ todo' = todo \ {user}
         /\ IF ShouldCreate(user)
            THEN /\ create_user(user, mapping.linux_group, mapping.other_groups)
                 /\ LogCall
                 /\ EngStep(CASE last'.result = "ok" -> "create"
                              [] last'.result = "UOUserAlreadyExistsError" -> "repair"
                              [] OTHER -> "fatal")
            ELSE /\ EngStep("create")
                 /\ UNCHANGED <<osVars, last, written, oplog>>
    /\ UNCHANGED <<ssh_list, current_users, removed_users, created_users, idx,
                   mapIdx, processed>>

\* step 7, repair: the existing account is deleted, under the same guard as step 6
EngRepair ==
    /\ pc = "repair"
    /\ delete_user(last.user)
    /\ LogCall
    /\ EngStep(IF last'.result = "ok" THEN "retry" ELSE "fatal")
    /\ UNCHANGED <<ssh_list, current_users, removed_users, created_users, todo, idx,
                   mapIdx, processed>>

\* step 7, repair: the creation is retried exactly once; a second failure is fatal
EngRetry ==
    /\ pc = "retry"
    /\ create_user(last.user, mapping.linux_group, mapping.other_groups)
    /\ LogCall
    /\ EngStep(IF last'.result = "ok" THEN "create" ELSE "fatal")
    /\ UNCHANGED <<ssh_list, current_users, removed_users, created_users, todo, idx,
                   mapIdx, processed>>

\* step 7 is complete: the key files are next
EngCreatesDone ==
    /\ pc = "create" /\ todo = {}
    /\ idx' = 1
    /\ EngStep("keys")
    /\ UNCHANGED <<osVars, last, written, ssh_list, current_users, removed_users,
                   created_users, todo, oplog, mapIdx, processed>>

\* step 8: writeAuthorizedKeys for the next member of the list
EngKeys ==
    /\ pc = "keys" /\ idx <= Len(ssh_list)
    /\ populate_ssh_file(ssh_list[idx], get_group_gid(mapping.linux_group))
    /\ LogCall
    /\ idx' = idx + 1
    /\ EngStep(IF last'.result = "ok" THEN "keys" ELSE "fatal")
    /\ UNCHANGED <<ssh_list, current_users, removed_users, created_users, todo,
                   mapIdx, processed>>

\* step 9: desired joins processed; the driver goes to the next mapping, or to
\* the sudoers file after the last one
EngMappingDone ==
    /\ pc = "keys" /\ idx > Len(ssh_list)
    /\ processed' = processed \cup desired_of(ssh_list)
    /\ IF mapIdx < Len(mappings)
       THEN mapIdx' = mapIdx + 1 /\ EngStep("fetch")
       ELSE mapIdx' = mapIdx /\ EngStep("sudoers")
    /\ UNCHANGED <<osVars, last, written, ssh_list, current_users, removed_users,
                   created_users, todo, idx, oplog>>

\* generateSudoersFile, once, after all mappings
EngSudoers ==
    /\ pc = "sudoers"
    /\ generate_sudoers_file(SudoersPath, mappings)
    /\ LogCall
    /\ EngStep("done")
    /\ UNCHANGED <<ssh_list, current_users, removed_users, created_users, todo, idx,
                   mapIdx, processed>>

EngInitAccounts ==
    {[name |-> <<"a">>, uid |-> 1001, gid |-> 2000, dir |-> <<"home", "a">>],
     [name |-> <<"b", "_", "c">>, uid |-> 1002, gid |-> 100, dir |-> <<"home", "b_c">>],
     [name |-> <<"d">>, uid |-> 500, gid |-> 2000, dir |-> <<"home", "d">>]}

\* the machine and the configuration before the run: dev exists, ops may not
EngInit ==
    /\ san = NoSan /\ IdleUO
    /\ passwd \in SUBSET EngInitAccounts
    /\ \E ops \in SUBSET {[name |-> OpsGroup, gid |-> 2001, mem |-> {}]} :
         etc_group = {[name |-> DevGroup, gid |-> 2000, mem |-> {}]} \cup ops
    /\ fs = HomesOf(passwd)
    /\ mappings \in EngMappingLists
    /\ remote \in [1..Len(mappings) -> EngMemberLists]
    /\ mapIdx = 1 /\ processed = {}
    /\ pc = "fetch" /\ ssh_list = <<>> /\ current_users = {} /\ removed_users = {}
    /\ created_users = {} /\ todo = {} /\ idx = 0 /\ oplog = <<>>

EngNext ==
    \/ EngFetch
    \/ EngFetchFails
    \/ EngGroup
    \/ EngDiff
    \/ EngDelete
    \/ EngDeletesDone
    \/ EngCreate
    \/ EngRepair
    \/ EngRetry
    \/ EngCreatesDone
    \/ EngKeys
    \/ EngMappingDone
    \/ EngSudoers

SpecEngine == EngInit /\ [][EngNext]_vars

\* the log entries of create_user calls for the user
CreatesOf(user) ==
    {i \in DOMAIN oplog : oplog[i].op = "create_user" /\ oplog[i].user = user}

\* the mappings whose remote group has a member of that canonical name
ClaimedBy(user) == {m \in DOMAIN mappings : user \in desired_of(remote[m])}

\* C5: over a run across all mappings, a principal is created at most once, and
\* create_user is called for its canonical username only under the first mapping
\* whose remote group it is a member of, never under a later one
C5_CreatedOnce ==
    \A user \in {sanitize_username(p.username) : p \in {EngPrincipalA, EngPrincipalB}} :
        /\ Cardinality({i \in CreatesOf(user) : oplog[i].status = "ok"}) <= 1
        /\ \A i \in CreatesOf(user) :
             /\ ClaimedBy(user) # {}
             /\ \A m \in ClaimedBy(user) : oplog[i].at <= m

\* a complete run in which a member of both remote groups was created under the
\* first mapping and was in toCreate again, and skipped, under the second
C5_Witness ==
    /\ pc = "done" /\ mapIdx = 2
    /\ \E user \in created_users :
         /\ ClaimedBy(user) = {1, 2}
         /\ \E i \in CreatesOf(user) : oplog[i].status = "ok" /\ oplog[i].at = 1
         /\ \A i \in CreatesOf(user) : oplog[i].at = 1

====
